---- MODULE Spec2Model ----
(***************************************************************************)
(* Model of analytical/templatetags/google_analytics.py: the               *)
(* GoogleAnalyticsNode template node, its construction from the settings   *)
(* and its render of a template context into the tracking snippet.         *)
(*                                                                         *)
(* Python values are modelled as follows.  An optional value (a setting    *)
(* that may be deleted, a context key that may be absent, None) is a       *)
(* sequence of length 0 or 1.  A dict is a function whose DOMAIN is its    *)
(* key set.  A string that the code inspects character by character (the   *)
(* property id) is a sequence of one-character strings.  A push command    *)
(* of the snippet is the tuple of its name and of its substituted          *)
(* arguments, and the html text is the sequence of its pieces.             *)
(***************************************************************************)
EXTENDS Integers, Sequences, FiniteSets, TLC

VARIABLES settings, context, node, last, raised, output

vars == <<settings, context, node, last, raised, output>>

None == <<>>
Some(x) == <<x>>
IsNone(o) == Len(o) = 0

\* getattr(settings, name, default)
getattr(o, default) == IF IsNone(o) THEN default ELSE o[1]

-----------------------------------------------------------------------------
(* Bounds of the model. *)

MaxDigits == 2
MaxItems == 2

-----------------------------------------------------------------------------
(* Module constants. *)

TRACK_SINGLE_DOMAIN == 1
TRACK_MULTIPLE_SUBDOMAINS == 2
TRACK_MULTIPLE_DOMAINS == 3

SCOPE_VISITOR == 1
SCOPE_SESSION == 2
SCOPE_PAGE == 3

IsDigit(c) == c \in {"0", "1", "2", "3", "4", "5", "6", "7", "8", "9"}

AllDigits(s, from, to) == \A k \in from..to : IsDigit(s[k])

\* PROPERTY_ID_RE = re.compile(r'^UA-\d+-\d+$'), as re.search applies it:
\* without re.MULTILINE '^' matches at the start of the string only and '$'
\* matches at the end of the string or just before a newline that ends it.
PROPERTY_ID_RE(s) ==
    \E i \in 4..Len(s) : \E j \in (i + 2)..Len(s) :
        /\ s[1] = "U" /\ s[2] = "A" /\ s[3] = "-"
        /\ AllDigits(s, 4, i)
        /\ s[i + 1] = "-"
        /\ AllDigits(s, i + 2, j)
        /\ \/ j = Len(s)
           \/ j = Len(s) - 1 /\ s[Len(s)] = "\n"

\* The pieces of SETUP_CODE around the commands.
SCRIPT_OPEN == <<"<script type=\"text/javascript\">", "var _gaq = _gaq || [];">>
SCRIPT_CLOSE == <<"</script>">>
SET_ACCOUNT_CODE(property_id) == <<"_setAccount", property_id>>
TRACK_PAGEVIEW_CODE == <<"_trackPageview">>
LOADER_CODE(source) == <<"ga.src", source[1], source[2]>>

SETUP_CODE(property_id, commands, source) ==
    <<SCRIPT_OPEN, SET_ACCOUNT_CODE(property_id), TRACK_PAGEVIEW_CODE>>
        \o commands \o <<LOADER_CODE(source), SCRIPT_CLOSE>>

DOMAIN_CODE(domain) == <<"_setDomainName", domain>>
NO_ALLOW_HASH_CODE == <<"_setAllowHash", "false">>
ALLOW_LINKER_CODE == <<"_setAllowLinker", "true">>
CUSTOM_VAR_CODE(index, name, value, scope) ==
    <<"_setCustomVar", ToString(index), name, value, ToString(scope)>>
SITE_SPEED_CODE == <<"_trackPageLoadTime">>
ANONYMIZE_IP_CODE == <<"_gat._anonymizeIp">>
TRANSACTION_CODE(t) ==
    <<"_addTrans", t["transactionId"], t["affiliation"], t["total"], t["tax"],
      t["shipping"], t["city"], t["state"], t["country"]>>
ITEM_CODE(item) ==
    <<"_addItem", item["transactionId"], item["sku"], item["name"],
      item["category"], item["price"], item["quantity"]>>
SET_CODE(key, value) == <<"_set", key, value>>
TRACK_TRANSACTION_CODE == <<"_trackTrans">>
DEFAULT_SOURCE == <<"'https://ssl' : 'http://www'", "'.google-analytics.com/ga.js'">>
DISPLAY_ADVERTISING_SOURCE == <<"'https://' : 'http://'", "'stats.g.doubleclick.net/dc.js'">>

\* A call that either raises AnalyticalException or returns a value.
Raise == [raised |-> TRUE, value |-> <<>>]
Return(v) == [raised |-> FALSE, value |-> v]

-----------------------------------------------------------------------------
(* analytical.utils, the collaborators of the node. *)

\* get_required_setting(setting, value_re, invalid_msg): the setting must
\* exist and its text must be found by value_re.
get_required_setting(value) ==
    IF IsNone(value) THEN Raise
    ELSE IF ~PROPERTY_ID_RE(value[1]) THEN Raise
    ELSE Return(value[1])

\* get_domain(context, prefix): the context's domain, else the configured
\* one, else None.
get_domain(ctx, stg) ==
    IF ~IsNone(ctx.domain) THEN ctx.domain ELSE stg.GOOGLE_ANALYTICS_DOMAIN

\* is_internal_ip(context, prefix)
is_internal_ip(ctx) == ctx.internal

\* disable_html(html, service): the html inside a comment.
COMMENT_OPEN == <<"<!--", "Google Analytics", "disabled on internal IP address">>
COMMENT_CLOSE == <<"-->">>
disable_html(html) == <<COMMENT_OPEN>> \o html \o <<COMMENT_CLOSE>>

-----------------------------------------------------------------------------
(* GoogleAnalyticsNode *)

\* The module's own enumerate(sequence, start).
enumerate(sequence, start) ==
    [k \in 1..Len(sequence) |-> <<start + k - 1, sequence[k]>>]

\* get_domain_commands with the test of TRACK_MULTIPLE_DOMAINS dropped: the
\* allow-linker command follows in every mode but the single domain one.
get_domain_commands_linker_always(ctx, stg) ==
    LET tracking_type == getattr(stg.GOOGLE_ANALYTICS_TRACKING_STYLE,
                                 TRACK_SINGLE_DOMAIN)
        domain == get_domain(ctx, stg)
    IN  IF tracking_type = TRACK_SINGLE_DOMAIN THEN Return(<<>>)
        ELSE IF IsNone(domain) THEN Raise
        ELSE Return(<<DOMAIN_CODE(domain[1]), NO_ALLOW_HASH_CODE, ALLOW_LINKER_CODE>>)

get_domain_commands(ctx, stg) ==
    LET tracking_type == getattr(stg.GOOGLE_ANALYTICS_TRACKING_STYLE,
                                 TRACK_SINGLE_DOMAIN)
        domain == get_domain(ctx, stg)
    IN  IF tracking_type = TRACK_SINGLE_DOMAIN THEN Return(<<>>)
        ELSE IF IsNone(domain) THEN Raise
        ELSE Return(<<DOMAIN_CODE(domain[1]), NO_ALLOW_HASH_CODE>>
                    \o (IF tracking_type = TRACK_MULTIPLE_DOMAINS
                        THEN <<ALLOW_LINKER_CODE>> ELSE <<>>))

custom_var_command(index, var) ==
    CUSTOM_VAR_CODE(index, var[1], var[2],
                    IF Len(var) >= 3 THEN var[3] ELSE SCOPE_PAGE)

\* get_custom_var_commands numbering the variables after the filter, by their
\* position among the present ones.
get_custom_var_commands_by_position(ctx) ==
    LET values == [i \in 1..5 |-> ctx.vars[i]]
        present == enumerate(SelectSeq(values, LAMBDA v : ~IsNone(v)), 1)
    IN  [k \in 1..Len(present) |->
            custom_var_command(present[k][1], present[k][2][1])]

get_custom_var_commands(ctx) ==
    LET values == [i \in 1..5 |-> ctx.vars[i]]
        present == SelectSeq(enumerate(values, 1), LAMBDA p : ~IsNone(p[2]))
    IN  [k \in 1..Len(present) |->
            custom_var_command(present[k][1], present[k][2][1])]

\* dict(defaults, **d)
dict(defaults, d) ==
    [k \in DOMAIN defaults \cup DOMAIN d |->
        IF k \in DOMAIN d THEN d[k] ELSE defaults[k]]

TRANSACTION_DEFAULTS ==
    [k \in {"affiliation", "tax", "shipping", "city", "state", "country"} |-> ""]
ITEM_DEFAULTS == [k \in {"transactionId", "category"} |-> ""]
ITEM_REQUIRED == {"sku", "name", "price", "quantity"}

\* 'transactionId' not in transaction or 'total' not in transaction
transaction_incomplete(transaction) ==
    "transactionId" \notin DOMAIN transaction \/ "total" \notin DOMAIN transaction

\* for required in (...): if required not in item: raise
item_incomplete(item) == \E required \in ITEM_REQUIRED : required \notin DOMAIN item

\* item_commands validating the first item only: a later incomplete item is
\* passed over.
item_commands_first_only(items) ==
    IF Len(items) = 0 THEN Return(<<>>)
    ELSE IF item_incomplete(Head(items)) THEN Raise
    ELSE LET complete == SelectSeq(items, LAMBDA item : ~item_incomplete(item))
         IN  Return([k \in 1..Len(complete) |->
                        ITEM_CODE(dict(ITEM_DEFAULTS, complete[k]))])

\* The loop over the items: the commands of the items, unless one raises.
RECURSIVE item_commands(_)
item_commands(items) ==
    IF Len(items) = 0 THEN Return(<<>>)
    ELSE IF item_incomplete(Head(items)) THEN Raise
    ELSE LET rest == item_commands(Tail(items))
         IN  IF rest.raised THEN Raise
             ELSE Return(<<ITEM_CODE(dict(ITEM_DEFAULTS, Head(items)))>>
                         \o rest.value)

\* local_currency as context.get(...) or default: an empty entry of the
\* context falls back to the configured default.
local_currency_or_default(ctx, stg) ==
    IF ~IsNone(ctx.currency_code) /\ ctx.currency_code[1] # ""
    THEN ctx.currency_code
    ELSE stg.GOOGLE_ANALYTICS_ECOMMERCE_CURRENCY_CODE

\* context.get('google_analytics_currency_code', default_local_currency)
local_currency(ctx, stg) ==
    IF ~IsNone(ctx.currency_code) THEN ctx.currency_code
    ELSE stg.GOOGLE_ANALYTICS_ECOMMERCE_CURRENCY_CODE

\* if local_currency: commands.append(SET_CODE % ...)
currency_commands(currency) ==
    IF ~IsNone(currency) /\ currency[1] # ""
    THEN <<SET_CODE("currencyCode", currency[1])>> ELSE <<>>

\* transaction_falsy taking a dict without a transactionId for no transaction.
transaction_falsy_without_id(transaction) ==
    IsNone(transaction) \/ "transactionId" \notin DOMAIN transaction[1]

\* not transaction: None or an empty dict
transaction_falsy(transaction) ==
    IsNone(transaction) \/ DOMAIN transaction[1] = {}

\* transaction_tail with the track-transaction command appended before the
\* currency code.
transaction_tail_track_first(items, currency) ==
    items \o <<TRACK_TRANSACTION_CODE>> \o currency_commands(currency)

\* The commands after the add-transaction command: the items, the currency
\* code, the track-transaction command.
transaction_tail(items, currency) ==
    items \o currency_commands(currency) \o <<TRACK_TRANSACTION_CODE>>

get_transaction_commands(ctx, stg) ==
    IF transaction_falsy(ctx.transaction) THEN Return(<<>>)
    ELSE IF transaction_incomplete(ctx.transaction[1]) THEN Raise
    ELSE LET transaction == dict(TRANSACTION_DEFAULTS, ctx.transaction[1])
             items == item_commands(getattr(ctx.items, <<>>))
         IN  IF items.raised THEN Raise
             ELSE Return(<<TRANSACTION_CODE(transaction)>>
                         \o transaction_tail(items.value, local_currency(ctx, stg)))

get_other_commands(stg) ==
    (IF getattr(stg.GOOGLE_ANALYTICS_SITE_SPEED, FALSE)
     THEN <<SITE_SPEED_CODE>> ELSE <<>>)
        \o (IF getattr(stg.GOOGLE_ANALYTICS_ANONYMIZE_IP, FALSE)
            THEN <<ANONYMIZE_IP_CODE>> ELSE <<>>)

\* assemble_commands with the last two extends exchanged.
assemble_commands_transaction_first(domain, custom, other, transaction) ==
    domain \o custom \o transaction \o other

\* commands = domain; extend(custom vars); extend(other); extend(transaction)
assemble_commands(domain, custom, other, transaction) ==
    domain \o custom \o other \o transaction

\* wrap_html without the test of the internal address.
wrap_html_never(html, internal) == html

\* if is_internal_ip(...): html = disable_html(html, 'Google Analytics')
wrap_html(html, internal) == IF internal THEN disable_html(html) ELSE html

render_result(self, ctx, stg) ==
    LET domain == get_domain_commands(ctx, stg)
        transaction == get_transaction_commands(ctx, stg)
        source == IF getattr(stg.GOOGLE_ANALYTICS_DISPLAY_ADVERTISING, FALSE)
                  THEN DISPLAY_ADVERTISING_SOURCE ELSE DEFAULT_SOURCE
    IN  IF domain.raised THEN Raise
        ELSE IF transaction.raised THEN Raise
        ELSE Return(wrap_html(
                 SETUP_CODE(self.property_id,
                            assemble_commands(domain.value,
                                              get_custom_var_commands(ctx),
                                              get_other_commands(stg),
                                              transaction.value),
                            source),
                 is_internal_ip(ctx)))

-----------------------------------------------------------------------------
(* Operations. *)

\* GoogleAnalyticsNode(): read and validate the property id.
GoogleAnalyticsNode ==
    LET r == get_required_setting(settings.GOOGLE_ANALYTICS_PROPERTY_ID)
    IN  /\ node' = IF r.raised THEN node ELSE Some([property_id |-> r.value])
        /\ last' = "__init__"
        /\ raised' = r.raised
        /\ output' = None
        /\ UNCHANGED <<settings, context>>

\* node.render(context)
render ==
    /\ ~IsNone(node)
    /\ LET r == render_result(node[1], context, settings)
       IN  /\ last' = "render"
           /\ raised' = r.raised
           /\ output' = IF r.raised THEN None ELSE Some(r.value)
    /\ UNCHANGED <<settings, context, node>>

Next == GoogleAnalyticsNode \/ render

-----------------------------------------------------------------------------
(* The settings and the template contexts the node is exercised with. *)

VALID_PROPERTY_ID == <<"U", "A", "-", "1", "2", "3", "4", "5", "6", "-", "7">>

DefaultSettings ==
    [GOOGLE_ANALYTICS_PROPERTY_ID |-> Some(VALID_PROPERTY_ID),
     GOOGLE_ANALYTICS_TRACKING_STYLE |-> None,
     GOOGLE_ANALYTICS_DOMAIN |-> None,
     GOOGLE_ANALYTICS_DISPLAY_ADVERTISING |-> None,
     GOOGLE_ANALYTICS_SITE_SPEED |-> None,
     GOOGLE_ANALYTICS_ANONYMIZE_IP |-> None,
     GOOGLE_ANALYTICS_ECOMMERCE_CURRENCY_CODE |-> None]

DefaultContext ==
    [domain |-> None, vars |-> [i \in 1..5 |-> None], transaction |-> None,
     items |-> None, currency_code |-> None, internal |-> FALSE]

Optional(S) == {None} \cup {Some(x) : x \in S}

\* Candidate property ids: a prefix, digits, a separator, digits, a suffix.
DigitRuns == UNION {[1..n -> {"1", "7"}] : n \in 0..MaxDigits}
IdPrefixes == {<<"U", "A", "-">>, <<"u", "a", "-">>, <<"x", "U", "A", "-">>, <<"U", "A">>}
IdSeparators == {<<"-">>, <<>>, <<"_">>}
IdSuffixes == {<<>>, <<"\n">>, <<"x">>, <<"\n", "\n">>, <<"\n", "x">>, <<" ">>}
PropertyIds ==
    {p \o a \o m \o b \o e : p \in IdPrefixes, a \in DigitRuns, m \in IdSeparators,
                            b \in DigitRuns, e \in IdSuffixes}

\* Custom variables: slot i holds nothing, (name, value) or (name, value, scope).
VarName(i) == "test" \o ToString(i)
VarValue(i) == "value" \o ToString(i)
SlotValues(i) ==
    {None, Some(<<VarName(i), VarValue(i)>>)}
        \cup {Some(<<VarName(i), VarValue(i), scope>>) :
                scope \in {SCOPE_VISITOR, SCOPE_SESSION, SCOPE_PAGE}}
AllVars ==
    {<<a, b, c, d, e>> : a \in SlotValues(1), b \in SlotValues(2), c \in SlotValues(3),
                        d \in SlotValues(4), e \in SlotValues(5)}
SomeVars ==
    {[i \in 1..5 |-> None],
     [i \in 1..5 |-> IF i = 3 THEN Some(<<VarName(3), VarValue(3)>>) ELSE None],
     [i \in 1..5 |-> IF i = 2 THEN Some(<<VarName(2), VarValue(2), SCOPE_VISITOR>>)
                     ELSE IF i = 5 THEN Some(<<VarName(5), VarValue(5)>>) ELSE None]}

\* Transactions: a dict over any of the eight transaction keys.
TRANSACTION_VALUES ==
    [transactionId |-> "1234", total |-> "12.50", affiliation |-> "affilaite",
     tax |-> "0.99", shipping |-> "1.99", city |-> "Jersey City", state |-> "NJ",
     country |-> "USA"]
Transaction(keys) == [k \in keys |-> TRANSACTION_VALUES[k]]
\* The transaction of test_transaction_item: an id and the fields of an item.
ITEM_TRANSACTION ==
    [transactionId |-> "1234", sku |-> "THNG001", name |-> "thing",
     category |-> "things", price |-> "50.00", quantity |-> "1"]
AllTransactions ==
    Optional({Transaction(keys) : keys \in SUBSET DOMAIN TRANSACTION_VALUES}
             \cup {ITEM_TRANSACTION})
SomeTransactions ==
    Optional({Transaction({}), Transaction({"transactionId", "total"}),
              Transaction(DOMAIN TRANSACTION_VALUES), Transaction({"transactionId"}),
              Transaction({"total", "tax"})})

\* Line items: a dict over any of the six item keys.
ITEM_VALUES ==
    [transactionId |-> "1234", sku |-> "THNG001", name |-> "thing",
     category |-> "things", price |-> "50.00", quantity |-> "1"]
OTHER_ITEM_VALUES ==
    [transactionId |-> "1234", sku |-> "WDGT002", name |-> "widget",
     category |-> "widgets", price |-> "7.25", quantity |-> "3"]
ItemKinds ==
    {[k \in DOMAIN ITEM_VALUES |-> ITEM_VALUES[k]],
     [k \in ITEM_REQUIRED |-> OTHER_ITEM_VALUES[k]],
     [k \in ITEM_REQUIRED \cup {"category"} |-> OTHER_ITEM_VALUES[k]],
     [k \in {} |-> ""]}
        \cup {[k \in DOMAIN ITEM_VALUES \ {missing} |-> ITEM_VALUES[k]] :
                missing \in ITEM_REQUIRED}
ItemLists == UNION {[1..n -> ItemKinds] : n \in 0..MaxItems}
SomeItemLists ==
    {<<>>, <<[k \in DOMAIN ITEM_VALUES |-> ITEM_VALUES[k]]>>,
     <<[k \in ITEM_REQUIRED |-> OTHER_ITEM_VALUES[k]],
       [k \in DOMAIN ITEM_VALUES \ {"sku"} |-> ITEM_VALUES[k]]>>}

InitWith(S, C) ==
    /\ settings \in S
    /\ context \in C
    /\ node = None
    /\ last = "none"
    /\ raised = FALSE
    /\ output = None

\* Rendering under every combination of the settings with a few contexts.
Init ==
    InitWith(
        [GOOGLE_ANALYTICS_PROPERTY_ID : {Some(VALID_PROPERTY_ID)},
         GOOGLE_ANALYTICS_TRACKING_STYLE :
             Optional({TRACK_SINGLE_DOMAIN, TRACK_MULTIPLE_SUBDOMAINS,
                       TRACK_MULTIPLE_DOMAINS}),
         GOOGLE_ANALYTICS_DOMAIN : Optional({"example.org"}),
         GOOGLE_ANALYTICS_DISPLAY_ADVERTISING : Optional({TRUE}),
         GOOGLE_ANALYTICS_SITE_SPEED : Optional({TRUE}),
         GOOGLE_ANALYTICS_ANONYMIZE_IP : Optional({TRUE, FALSE}),
         GOOGLE_ANALYTICS_ECOMMERCE_CURRENCY_CODE : Optional({"USD"})],
        [domain : Optional({"example.com"}),
         vars : SomeVars,
         transaction : Optional({Transaction({"transactionId", "total"}),
                                 Transaction({"total", "tax"})}),
         items : Optional(SomeItemLists),
         currency_code : {None},
         internal : BOOLEAN])

\* Construction under every candidate property id.
InitConstruct ==
    InitWith(
        {[DefaultSettings EXCEPT !.GOOGLE_ANALYTICS_PROPERTY_ID = p] : p \in Optional(PropertyIds)},
        {DefaultContext, [DefaultContext EXCEPT !.internal = TRUE]})

\* Rendering every combination of custom variables.
InitCustomVars ==
    InitWith({DefaultSettings}, {[DefaultContext EXCEPT !.vars = v] : v \in AllVars})

\* Rendering transactions, line items and currency codes.
InitTransaction ==
    \/ InitWith(
        {[DefaultSettings EXCEPT !.GOOGLE_ANALYTICS_ECOMMERCE_CURRENCY_CODE = c] :
            c \in Optional({"USD"})},
        {[DefaultContext EXCEPT !.transaction = t, !.items = i] :
            t \in AllTransactions,
            i \in {None, Some(<<[k \in DOMAIN ITEM_VALUES |-> ITEM_VALUES[k]]>>)}})
    \/ InitWith(
        {[DefaultSettings EXCEPT !.GOOGLE_ANALYTICS_ECOMMERCE_CURRENCY_CODE = c] :
            c \in Optional({"", "USD"})},
        {[DefaultContext EXCEPT !.transaction = t, !.items = i, !.currency_code = c] :
            t \in SomeTransactions, i \in Optional(ItemLists),
            c \in Optional({"", "EUR"})})

Spec == Init /\ [][Next]_vars
SpecConstruct == InitConstruct /\ [][Next]_vars
SpecCustomVars == InitCustomVars /\ [][Next]_vars
SpecTransaction == InitTransaction /\ [][Next]_vars

-----------------------------------------------------------------------------
(* What a state shows of the last call. *)

Rendered == last = "render"
Returned == Rendered /\ ~raised /\ ~IsNone(output)
Failed == Rendered /\ raised /\ IsNone(output)

\* The script block of the returned text, inside the comment when there is one.
IsComment(html) == html[1][1] = "<!--"
Script ==
    IF IsComment(output[1]) THEN SubSeq(output[1], 2, Len(output[1]) - 1)
    ELSE output[1]
\* The commands between the track-pageview command and the loader.
Commands == SubSeq(Script, 4, Len(Script) - 2)
CommandsNamed(names) == SelectSeq(Commands, LAMBDA c : c[1] \in names)
Field(d, k) == IF k \in DOMAIN d THEN d[k] ELSE ""

\* The inputs of the render, as the specification names them.
Mode ==
    IF IsNone(settings.GOOGLE_ANALYTICS_TRACKING_STYLE) THEN 1
    ELSE settings.GOOGLE_ANALYTICS_TRACKING_STYLE[1]
DomainAvailable ==
    ~IsNone(context.domain) \/ ~IsNone(settings.GOOGLE_ANALYTICS_DOMAIN)
AvailableDomain ==
    IF ~IsNone(context.domain) THEN context.domain[1]
    ELSE settings.GOOGLE_ANALYTICS_DOMAIN[1]
DomainMissing == Mode # 1 /\ ~DomainAvailable
TransactionPresent == ~IsNone(context.transaction)
TransactionEmpty == TransactionPresent /\ DOMAIN context.transaction[1] = {}
TransactionLacksIdOrTotal ==
    /\ TransactionPresent
    /\ ~{"transactionId", "total"} \subseteq DOMAIN context.transaction[1]
TransactionValid ==
    /\ TransactionPresent
    /\ {"transactionId", "total"} \subseteq DOMAIN context.transaction[1]
ItemList == IF IsNone(context.items) THEN <<>> ELSE context.items[1]
ItemValid(item) == {"sku", "name", "price", "quantity"} \subseteq DOMAIN item
ItemsValid == \A k \in 1..Len(ItemList) : ItemValid(ItemList[k])

DomainNames == {"_setDomainName", "_setAllowHash", "_setAllowLinker"}
TransactionNames == {"_addTrans", "_addItem", "_set", "_trackTrans"}
OtherNames == {"_trackPageLoadTime", "_gat._anonymizeIp"}

-----------------------------------------------------------------------------
(* C1 *)

\* The text UA-<digits>-<digits>, and nothing else.
WellFormedPropertyId(s) ==
    \E a \in 1..Len(s) : \E b \in 1..Len(s) :
        /\ Len(s) = 3 + a + 1 + b
        /\ s[1] = "U" /\ s[2] = "A" /\ s[3] = "-"
        /\ \A k \in 4..(3 + a) : s[k] \in {"0", "1", "2", "3", "4", "5", "6", "7", "8", "9"}
        /\ s[4 + a] = "-"
        /\ \A k \in (5 + a)..Len(s) : s[k] \in {"0", "1", "2", "3", "4", "5", "6", "7", "8", "9"}

\* C1: constructing the node fails exactly when the configured property id is
\* missing or is not of the form UA-<digits>-<digits>; a constructed node keeps
\* that property id, and every text it renders holds the set-account command
\* with exactly that id followed by the track-pageview command.
C1_PropertyIdValidated ==
    /\ last = "__init__" =>
        /\ raised <=> \/ IsNone(settings.GOOGLE_ANALYTICS_PROPERTY_ID)
                      \/ ~WellFormedPropertyId(settings.GOOGLE_ANALYTICS_PROPERTY_ID[1])
        /\ ~raised => node = Some([property_id |->
                                     settings.GOOGLE_ANALYTICS_PROPERTY_ID[1]])
    /\ Returned =>
        /\ Script[2] = <<"_setAccount", settings.GOOGLE_ANALYTICS_PROPERTY_ID[1]>>
        /\ Script[3] = <<"_trackPageview">>

-----------------------------------------------------------------------------
(* C2 *)

\* C2: in single-domain mode a render emits no domain command; in a
\* multiple-(sub)domain mode it fails with no output when no domain is
\* available, and otherwise emits set-domain with that domain, then
\* disable-hash, then allow-linker exactly when the mode is multiple domains.
C2_DomainCommands ==
    Rendered =>
        /\ DomainMissing => Failed
        /\ Returned /\ Mode = 1 => CommandsNamed(DomainNames) = <<>>
        /\ Returned /\ Mode # 1 =>
            CommandsNamed(DomainNames) =
                <<<<"_setDomainName", AvailableDomain>>, <<"_setAllowHash", "false">>>>
                    \o (IF Mode = 3 THEN <<<<"_setAllowLinker", "true">>>> ELSE <<>>)
        /\ raised => DomainMissing \/ TransactionLacksIdOrTotal \/ ~ItemsValid

C2_Witness ==
    /\ Returned /\ Mode = 3 /\ DomainAvailable
    /\ CommandsNamed({"_setAllowLinker"}) # <<>>

-----------------------------------------------------------------------------
(* C3 *)

\* C3 as stated: a render whose context holds a transaction value, an empty
\* map included, that lacks its id or its total fails and returns nothing.
C3_AnyTransactionLackingIdOrTotalFails ==
    Rendered /\ TransactionLacksIdOrTotal => Failed

\* C3 as amended: a render whose context holds a transaction map with at least
\* one field that lacks its id or its total fails and returns nothing; a
\* transaction map with no field is treated as no transaction: it raises no
\* error and no transaction command is emitted.
C3_NonEmptyTransactionLackingIdOrTotalFails ==
    Rendered =>
        /\ TransactionLacksIdOrTotal /\ ~TransactionEmpty => Failed
        /\ TransactionEmpty =>
            /\ raised => DomainMissing
            /\ Returned => CommandsNamed(TransactionNames) = <<>>

C3_Witness ==
    /\ Failed
    /\ TransactionLacksIdOrTotal /\ ~TransactionEmpty
    /\ "transactionId" \in DOMAIN context.transaction[1]

-----------------------------------------------------------------------------
(* C4 *)

\* C4: rendering the context of test_transaction_item, whose transaction map
\* holds a transactionId and the fields of an item and nothing else, returns
\* a text with the add-item command of that id, sku, name, category, price
\* and quantity.
C4_ItemTransactionRendersAddItem ==
    Rendered /\ context.transaction = Some(ITEM_TRANSACTION) =>
        /\ Returned
        /\ \E k \in 1..Len(Commands) :
            Commands[k] = <<"_addItem", "1234", "THNG001", "thing", "things",
                            "50.00", "1">>

-----------------------------------------------------------------------------
(* C5 *)

TransactionCommands == CommandsNamed(TransactionNames)

\* C5: a render with a valid transaction and valid line items emits, in this
\* order, one add-transaction command (absent optional fields as ""), one
\* add-item command per line item in list order (absent transactionId and
\* category as ""), at most one currency-code command and, last, one
\* track-transaction command; with no transaction in the context it emits
\* none of them, whatever the line items.
C5_TransactionCommandOrder ==
    /\ Rendered /\ TransactionValid /\ ItemsValid =>
        /\ raised => DomainMissing
        /\ Returned =>
            LET T == TransactionCommands
                n == Len(ItemList)
                tx == context.transaction[1]
            IN  /\ Len(T) \in {n + 2, n + 3}
                /\ T[1] = <<"_addTrans", tx["transactionId"], Field(tx, "affiliation"),
                            tx["total"], Field(tx, "tax"), Field(tx, "shipping"),
                            Field(tx, "city"), Field(tx, "state"),
                            Field(tx, "country")>>
                /\ \A k \in 1..n :
                    T[1 + k] = <<"_addItem", Field(ItemList[k], "transactionId"),
                                 ItemList[k]["sku"], ItemList[k]["name"],
                                 Field(ItemList[k], "category"),
                                 ItemList[k]["price"], ItemList[k]["quantity"]>>
                /\ Len(T) = n + 3 =>
                    T[n + 2][1] = "_set" /\ T[n + 2][2] = "currencyCode"
                /\ T[Len(T)] = <<"_trackTrans">>
    /\ Returned /\ ~TransactionPresent => TransactionCommands = <<>>

C5_Witness ==
    /\ Returned /\ TransactionValid /\ ItemsValid
    /\ Len(ItemList) = 2 /\ ItemList[1] # ItemList[2]
    /\ "category" \notin DOMAIN ItemList[2]
    /\ DOMAIN context.transaction[1] = {"transactionId", "total"}
    /\ Len(TransactionCommands) = 5

-----------------------------------------------------------------------------
(* C6 *)

\* C6: a render with a valid transaction fails and returns nothing as soon as
\* one line item, at any position of the list, lacks sku, name, price or
\* quantity.
C6_IncompleteItemFails ==
    Rendered /\ TransactionValid /\ ~ItemsValid => Failed

C6_Witness ==
    /\ Failed /\ TransactionValid
    /\ Len(ItemList) = 2
    /\ ItemValid(ItemList[1]) /\ ~ItemValid(ItemList[2])

-----------------------------------------------------------------------------
(* C7 *)

DecimalText == <<"1", "2", "3", "4", "5">>
PresentSlots == {i \in 1..5 : ~IsNone(context.vars[i])}
CustomVarCommands == CommandsNamed({"_setCustomVar"})
SlotOf(command) == CHOOSE i \in 1..5 : DecimalText[i] = command[2]

\* C7: a render emits one set-custom-variable command per slot of 1..5 that
\* the context fills and none for the others, in ascending slot order, each
\* with the slot's own index, its name, its value and its scope code, 3 when
\* the slot gives no scope.
C7_CustomVarCommands ==
    Returned =>
        LET V == CustomVarCommands
        IN  /\ Len(V) = Cardinality(PresentSlots)
            /\ \A k \in 1..Len(V) : V[k][2] \in {DecimalText[i] : i \in PresentSlots}
            /\ \A k \in 1..(Len(V) - 1) : SlotOf(V[k]) < SlotOf(V[k + 1])
            /\ \A k \in 1..Len(V) :
                LET var == context.vars[SlotOf(V[k])][1]
                IN  V[k] = <<"_setCustomVar", DecimalText[SlotOf(V[k])], var[1], var[2],
                             IF Len(var) = 3 THEN DecimalText[var[3]] ELSE "3">>

C7_Witness ==
    /\ Returned
    /\ PresentSlots = {1, 2, 4, 5}
    /\ Len(context.vars[1][1]) = 2
    /\ Len(context.vars[2][1]) = 3 /\ context.vars[2][1][3] = 1
    /\ Len(CustomVarCommands) = 4

-----------------------------------------------------------------------------
(* C8 *)

Truthy(o) == ~IsNone(o) /\ o[1] # ""
ValidationFails ==
    \/ DomainMissing
    \/ /\ TransactionPresent /\ ~TransactionEmpty
       /\ TransactionLacksIdOrTotal \/ ~ItemsValid
ExpectedCommandCount ==
    (IF Mode = 1 THEN 0 ELSE IF Mode = 3 THEN 3 ELSE 2)
    + Cardinality(PresentSlots)
    + (IF settings.GOOGLE_ANALYTICS_SITE_SPEED = Some(TRUE) THEN 1 ELSE 0)
    + (IF settings.GOOGLE_ANALYTICS_ANONYMIZE_IP = Some(TRUE) THEN 1 ELSE 0)
    + (IF TransactionPresent /\ ~TransactionEmpty
       THEN 2 + Len(ItemList)
            + (IF Truthy(IF IsNone(context.currency_code)
                         THEN settings.GOOGLE_ANALYTICS_ECOMMERCE_CURRENCY_CODE
                         ELSE context.currency_code) THEN 1 ELSE 0)
       ELSE 0)

\* C8: the text returned for a request flagged internal is the whole script
\* block inside one comment that opens with the disabled notice; the text
\* returned for any other request is the bare script block; whether the render
\* fails and how many commands it assembles do not depend on the flag.
C8_InternalRequestsGetComment ==
    /\ Returned =>
        LET html == output[1]
        IN  /\ context.internal =>
                /\ html[1] = <<"<!--", "Google Analytics",
                               "disabled on internal IP address">>
                /\ html[Len(html)] = <<"-->">>
            /\ ~context.internal =>
                \A k \in 1..Len(html) : html[k][1] \notin {"<!--", "-->"}
            /\ Script[1][1] = "<script type=\"text/javascript\">"
            /\ Script[Len(Script)] = <<"</script>">>
            /\ \A k \in 2..(Len(Script) - 1) :
                Script[k][1] \notin {"<!--", "-->", "</script>",
                                     "<script type=\"text/javascript\">"}
            /\ Len(Commands) = ExpectedCommandCount
    /\ Rendered => (raised <=> ValidationFails)

C8_Witness ==
    /\ Returned /\ context.internal
    /\ IsComment(output[1])
    /\ Len(Commands) > 3

-----------------------------------------------------------------------------
(* C9 *)

CustomVarNames == {"_setCustomVar"}
NonDecreasing(ranks) == \A k \in 1..(Len(ranks) - 1) : ranks[k] <= ranks[k + 1]

\* The position of a command's group in the order the claim states.
StatedRank(command) ==
    CASE command[1] \in DomainNames -> 1
      [] command[1] \in CustomVarNames -> 2
      [] command[1] \in TransactionNames -> 3
      [] command[1] \in OtherNames -> 4

\* The position of a command's group in the order render extends the list.
RenderRank(command) ==
    CASE command[1] \in DomainNames -> 1
      [] command[1] \in CustomVarNames -> 2
      [] command[1] \in OtherNames -> 3
      [] command[1] \in TransactionNames -> 4

AccountAndPageviewFirst ==
    /\ Script[2][1] = "_setAccount"
    /\ Script[3][1] = "_trackPageview"
    /\ \A k \in 1..Len(Commands) :
        Commands[k][1] \in DomainNames \cup CustomVarNames
                           \cup OtherNames \cup TransactionNames

\* C9 as stated: after set-account and track-pageview the groups come as
\* domain, custom variable, transaction, other commands, so track-transaction
\* precedes site-speed and anonymize-IP.
C9_TransactionBeforeOther ==
    Returned =>
        /\ AccountAndPageviewFirst
        /\ NonDecreasing([k \in 1..Len(Commands) |-> StatedRank(Commands[k])])

\* C9 as amended: after set-account and track-pageview the groups come as
\* domain, custom variable, other, transaction commands, so site-speed and
\* anonymize-IP precede add-transaction and track-transaction.
C9_OtherBeforeTransaction ==
    Returned =>
        /\ AccountAndPageviewFirst
        /\ NonDecreasing([k \in 1..Len(Commands) |-> RenderRank(Commands[k])])

C9_Witness ==
    /\ Returned
    /\ CommandsNamed(DomainNames) # <<>>
    /\ CommandsNamed(CustomVarNames) # <<>>
    /\ Len(CommandsNamed(OtherNames)) = 2
    /\ Len(CommandsNamed(TransactionNames)) > 2

-----------------------------------------------------------------------------
(* C10 *)

CurrencyCommands == CommandsNamed({"_set"})
DefaultCurrency == settings.GOOGLE_ANALYTICS_ECOMMERCE_CURRENCY_CODE
ContextCurrency == context.currency_code
EffectiveCurrency ==
    IF IsNone(ContextCurrency) THEN DefaultCurrency ELSE ContextCurrency

\* C10 as stated: with a valid transaction the currency-code command is
\* emitted exactly when a code is configured or provided in the context, it
\* carries the context's code when the context provides one, and it carries
\* the configured default when the context's entry is present but empty.
C10_DefaultCurrencySurvivesEmptyEntry ==
    Returned /\ TransactionValid =>
        /\ CurrencyCommands # <<>> <=>
            Truthy(DefaultCurrency) \/ Truthy(ContextCurrency)
        /\ Truthy(ContextCurrency) =>
            CurrencyCommands = <<<<"_set", "currencyCode", ContextCurrency[1]>>>>
        /\ ~IsNone(ContextCurrency) /\ ~Truthy(ContextCurrency)
                /\ Truthy(DefaultCurrency) =>
            CurrencyCommands = <<<<"_set", "currencyCode", DefaultCurrency[1]>>>>

\* C10 as amended: with a valid transaction the currency-code command is
\* emitted exactly when the effective code is not empty, the effective code
\* being the context's entry whenever the context has one, empty or not, and
\* the configured default otherwise; the command carries the effective code.
C10_EffectiveCurrencyEmitted ==
    Returned /\ TransactionValid =>
        /\ CurrencyCommands # <<>> <=> Truthy(EffectiveCurrency)
        /\ Truthy(EffectiveCurrency) =>
            CurrencyCommands = <<<<"_set", "currencyCode", EffectiveCurrency[1]>>>>

C10_Witness ==
    /\ Returned /\ TransactionValid
    /\ ContextCurrency = Some("") /\ DefaultCurrency = Some("USD")
    /\ CurrencyCommands = <<>>

====
